---- MODULE Spec2Model ----
(***************************************************************************)
(* Model of herd_notify_slack.adapter.SlackNotifyAdapter.                  *)
(*                                                                         *)
(* A Python str is a sequence of Unicode code points (integers), so that   *)
(* urllib.parse.urlencode (percent-encoding of the UTF-8 bytes, which      *)
(* fails on lone surrogates) is computed rather than assumed.  None is the *)
(* one-element sequence <<-1>>, which is no str.  A JSON object is a       *)
(* function whose domain is the set of keys it carries.                    *)
(***************************************************************************)
EXTENDS Integers, Sequences, FiniteSets, TLC

VARIABLES token, default_channel, call, requests, result

vars == <<token, default_channel, call, requests, result>>

-----------------------------------------------------------------------------
(* Bounds *)

MaxMatches == 2
MaxThread == 3
MaxLimit == 1

-----------------------------------------------------------------------------
(* Python str values *)

\* printable ASCII from U+0020 to U+005F, and from U+0061 to U+007E
AsciiLow == " !\"#$%&'()*+,-./0123456789:;<=>?@ABCDEFGHIJKLMNOPQRSTUVWXYZ[\\]^_"

AsciiHigh == "abcdefghijklmnopqrstuvwxyz{|}~"

Ord(ch) ==
    IF \E i \in 1..Len(AsciiLow) : SubSeq(AsciiLow, i, i) = ch
    THEN 31 + (CHOOSE i \in 1..Len(AsciiLow) : SubSeq(AsciiLow, i, i) = ch)
    ELSE 96 + (CHOOSE i \in 1..Len(AsciiHigh) : SubSeq(AsciiHigh, i, i) = ch)

S(lit) == [i \in 1..Len(lit) |-> Ord(SubSeq(lit, i, i))]

None == <<-1>>

Truthy(v) == v # None /\ v # <<>>

Or(a, b) == IF Truthy(a) THEN a ELSE b

RECURSIVE Digits(_)
Digits(n) == IF n < 10 THEN <<48 + n>> ELSE Digits(n \div 10) \o <<48 + (n % 10)>>

\* str() of an int
Str(n) == IF n < 0 THEN <<45>> \o Digits(-n) ELSE Digits(n)

Contains(s, sub) ==
    \E i \in 1..(Len(s) - Len(sub) + 1) : SubSeq(s, i, i + Len(sub) - 1) = sub

EndsWith(s, suf) ==
    Len(suf) <= Len(s) /\ SubSeq(s, Len(s) - Len(suf) + 1, Len(s)) = suf

StartsWith(s, pre) == Len(pre) <= Len(s) /\ SubSeq(s, 1, Len(pre)) = pre

RECURSIVE Flatten(_)
Flatten(ss) == IF ss = <<>> THEN <<>> ELSE Head(ss) \o Flatten(Tail(ss))

-----------------------------------------------------------------------------
(* urllib.parse.urlencode *)

IsSurrogate(c) == c >= 55296 /\ c <= 57343

Utf8(c) ==
    IF c < 128 THEN <<c>>
    ELSE IF c < 2048 THEN <<192 + (c \div 64), 128 + (c % 64)>>
    ELSE IF c < 65536
         THEN <<224 + (c \div 4096), 128 + ((c \div 64) % 64), 128 + (c % 64)>>
    ELSE <<240 + (c \div 262144), 128 + ((c \div 4096) % 64),
           128 + ((c \div 64) % 64), 128 + (c % 64)>>

HexDigit(h) == IF h < 10 THEN 48 + h ELSE 55 + h

AlwaysSafe == (48..57) \cup (65..90) \cup (97..122) \cup {95, 46, 45, 126}

QuoteChar(c) ==
    IF c \in AlwaysSafe THEN <<c>>
    ELSE IF c = 32 THEN <<43>>
    ELSE LET bytes == Utf8(c)
         IN  Flatten([i \in 1..Len(bytes) |->
                        <<37, HexDigit(bytes[i] \div 16), HexDigit(bytes[i] % 16)>>])

Encodable(s) == \A i \in 1..Len(s) : ~IsSurrogate(s[i])

QuotePlus(s) == Flatten([i \in 1..Len(s) |-> QuoteChar(s[i])])

\* urlencode of a two-parameter mapping; "raise" when a value has no UTF-8 encoding
UrlEncode(k1, v1, k2, v2) ==
    IF Encodable(v1) /\ Encodable(v2)
    THEN [kind |-> "ok",
          value |-> QuotePlus(k1) \o <<61>> \o QuotePlus(v1) \o <<38>>
                    \o QuotePlus(k2) \o <<61>> \o QuotePlus(v2)]
    ELSE [kind |-> "raise", type |-> "UnicodeEncodeError"]

-----------------------------------------------------------------------------
(* Results of an invocation *)

Return(v) == [kind |-> "return", value |-> v]

Raise(type, msg) == [kind |-> "raise", type |-> type, msg |-> msg]

Get(d, key, default) == IF key \in DOMAIN d THEN d[key] ELSE default

-----------------------------------------------------------------------------
(* Outcomes of urllib.request.urlopen followed by json.loads(resp.read()) *)

HttpError(code, reason) == [t |-> "http", code |-> code, reason |-> reason]

OtherError(text) == [t |-> "exc", text |-> text]

Unparsable == [t |-> "garbage", text |-> S("Expecting value")]

NonObject == [t |-> "nonobject"]

Body(json) == [t |-> "body", json |-> json]

TransportFailures ==
    {HttpError(401, S("Unauthorized")), OtherError(S("Network error")), Unparsable}

-----------------------------------------------------------------------------
(* SlackNotifyAdapter._api_call *)

ApiBase == S("https://slack.com/api/")

Bearer == S("Bearer ")

HttpErrorPrefix == S("HTTP error: ")

RequestFailedPrefix == S("Request failed: ")

PostRequest(method, payload) ==
    [verb |-> "POST", url |-> ApiBase \o method, json |-> payload,
     auth |-> Bearer \o token]

GetRequest(url) == [verb |-> "GET", url |-> url, auth |-> Bearer \o token]

ApiCallBareHttpError(method, payload, net) ==
    [request |-> PostRequest(method, payload),
     outcome |->
        IF net.t \in {"http", "exc", "garbage"}
        THEN Raise("RuntimeError", RequestFailedPrefix)
        ELSE IF net.t = "nonobject"
        THEN [kind |-> "value", isdict |-> FALSE, json |-> <<>>]
        ELSE [kind |-> "value", isdict |-> TRUE, json |-> net.json]]

ApiCall(method, payload, net) ==
    [request |-> PostRequest(method, payload),
     outcome |->
        IF net.t = "http"
        THEN Raise("RuntimeError",
                   HttpErrorPrefix \o Str(net.code) \o <<32>> \o net.reason)
        ELSE IF net.t \in {"exc", "garbage"}
        THEN Raise("RuntimeError", RequestFailedPrefix \o net.text)
        ELSE IF net.t = "nonobject"
        THEN [kind |-> "value", isdict |-> FALSE, json |-> <<>>]
        ELSE [kind |-> "value", isdict |-> TRUE, json |-> net.json]]

-----------------------------------------------------------------------------
(* SlackNotifyAdapter.post and post_thread *)

ChatPostMessage == S("chat.postMessage")

SlackApiErrorPrefix == S("Slack API error: ")

UnknownError == S("unknown error")

ResolveChannel(channel) == Or(channel, default_channel)

PostPayloadNotNone(channel, message, username, icon) ==
    [k \in {"channel", "text"}
           \cup (IF username # None THEN {"username"} ELSE {})
           \cup (IF icon # None THEN {"icon_emoji"} ELSE {}) |->
        CASE k = "channel" -> channel
          [] k = "text" -> message
          [] k = "username" -> username
          [] k = "icon_emoji" -> icon]

PostPayload(channel, message, username, icon) ==
    [k \in {"channel", "text"}
           \cup (IF Truthy(username) THEN {"username"} ELSE {})
           \cup (IF Truthy(icon) THEN {"icon_emoji"} ELSE {}) |->
        CASE k = "channel" -> channel
          [] k = "text" -> message
          [] k = "username" -> username
          [] k = "icon_emoji" -> icon]

ThreadPayload(channel, message, thread_id) ==
    [channel |-> channel, text |-> message, thread_ts |-> thread_id]

OkFlag(json) == "ok" \in DOMAIN json /\ json["ok"]

ErrorFieldNoFallback(json) == Get(json, "error", <<>>)

ErrorField(json) == Get(json, "error", UnknownError)

MakePostResultSwapped(json) ==
    [message_id |-> json["ts"], channel |-> json["ts"],
     timestamp |-> json["channel"]]

MakePostResult(json) ==
    [message_id |-> json["ts"], channel |-> json["channel"],
     timestamp |-> json["ts"]]

\* lines 64-72 (and 104-112): what post does with the value _api_call gave it
PostOutcome(r) ==
    IF r.kind = "raise" THEN r
    ELSE IF ~r.isdict THEN Raise("AttributeError", <<>>)
    ELSE IF ~OkFlag(r.json)
    THEN Raise("RuntimeError", SlackApiErrorPrefix \o ErrorField(r.json))
    ELSE IF {"ts", "channel"} \subseteq DOMAIN r.json
    THEN Return(MakePostResult(r.json))
    ELSE Raise("KeyError", <<>>)

post(message, channel, username, icon, net) ==
    LET payload == PostPayload(ResolveChannel(channel), message, username, icon)
        r == ApiCall(ChatPostMessage, payload, net)
    IN  [requests |-> <<r.request>>, result |-> PostOutcome(r.outcome)]

post_thread(thread_id, message, channel, net) ==
    LET payload == ThreadPayload(ResolveChannel(channel), message, thread_id)
        r == ApiCall(ChatPostMessage, payload, net)
    IN  [requests |-> <<r.request>>, result |-> PostOutcome(r.outcome)]

-----------------------------------------------------------------------------
(* SlackNotifyAdapter.get_thread_replies *)

RepliesUrl == S("https://slack.com/api/conversations.replies?")

ChannelParam == S("channel")

TsParam == S("ts")

Unknown == S("unknown")

KeepParent(messages) == messages

DropParent(messages) == IF Len(messages) > 1 THEN Tail(messages) ELSE <<>>

ReplyMessage(msg) ==
    [author |-> Get(msg, "user", Unknown), text |-> Get(msg, "text", <<>>),
     timestamp |-> Get(msg, "ts", <<>>)]

\* lines 137-156: the body of the try block, given what urlopen produced
RepliesOutcome(net) ==
    IF net.t # "body" THEN Return(<<>>)
    ELSE IF ~OkFlag(net.json) THEN Return(<<>>)
    ELSE LET replies == DropParent(Get(net.json, "messages", <<>>))
         IN  Return([i \in 1..Len(replies) |-> ReplyMessage(replies[i])])

get_thread_replies(channel, thread_id, net) ==
    LET params == UrlEncode(ChannelParam, channel, TsParam, thread_id)
    IN  IF params.kind = "raise"
        THEN [requests |-> <<>>, result |-> Raise(params.type, <<>>)]
        ELSE [requests |-> <<GetRequest(RepliesUrl \o params.value)>>,
              result |-> RepliesOutcome(net)]

-----------------------------------------------------------------------------
(* SlackNotifyAdapter.search *)

SearchUrl == S("https://slack.com/api/search.messages?")

QueryParam == S("query")

CountParam == S("count")

InClause == S(" in:")

AfterClause == S(" after:")

HardCap == 100

DefaultLimit == 50

Min(a, b) == IF a < b THEN a ELSE b

Max(a, b) == IF a > b THEN a ELSE b

\* a datetime is <<year, month, day, hour, minute>>
ZeroPad2(n) == IF n < 10 THEN <<48>> \o Str(n) ELSE Str(n)

\* since.strftime("%Y-%m-%d"), for the four-digit years the model draws
Strftime(since) ==
    Str(since[1]) \o <<45>> \o ZeroPad2(since[2]) \o <<45>> \o ZeroPad2(since[3])

SearchQueryLosesChannel(query, channel, since) ==
    LET q1 == IF Truthy(channel) THEN query \o InClause \o channel ELSE query
    IN  IF Truthy(since) THEN query \o AfterClause \o Strftime(since) ELSE q1

SearchQuery(query, channel, since) ==
    LET q1 == IF Truthy(channel) THEN query \o InClause \o channel ELSE query
    IN  IF Truthy(since) THEN q1 \o AfterClause \o Strftime(since) ELSE q1

SliceAll(matches, limit) == matches

\* Python's matches[:limit]
SliceTo(matches, limit) ==
    IF limit >= 0 THEN SubSeq(matches, 1, Min(limit, Len(matches)))
    ELSE SubSeq(matches, 1, Max(Len(matches) + limit, 0))

MatchMessage(msg) ==
    [author |-> Get(msg, "user", Get(msg, "username", Unknown)),
     text |-> Get(msg, "text", <<>>), timestamp |-> Get(msg, "ts", <<>>)]

\* lines 197-214: the body of the try block, given what urlopen produced
SearchOutcome(net, limit) ==
    IF net.t # "body" THEN Return(<<>>)
    ELSE IF ~OkFlag(net.json) THEN Return(<<>>)
    ELSE LET matches == Get(Get(net.json, "messages", <<>>), "matches", <<>>)
             kept == SliceTo(matches, limit)
         IN  Return([i \in 1..Len(kept) |-> MatchMessage(kept[i])])

search(query, channel, since, limit, net) ==
    LET params == UrlEncode(QueryParam, SearchQuery(query, channel, since),
                            CountParam, Str(Min(limit, HardCap)))
    IN  IF params.kind = "raise"
        THEN [requests |-> <<>>, result |-> Raise(params.type, <<>>)]
        ELSE [requests |-> <<GetRequest(SearchUrl \o params.value)>>,
              result |-> SearchOutcome(net, limit)]

-----------------------------------------------------------------------------
(* Arguments the caller may pass and responses the remote may give *)

\* the one-character str "\udc80": a lone surrogate, which has no UTF-8 encoding
LoneSurrogate == <<56448>>

Tokens == {S("xoxb-test")}

DefaultChannels == {S("#herd-feed")}

Texts == {S("hi")}

OptChannels == {None, <<>>, S("#x")}

OptUsernames == {None, <<>>, S("bot")}

OptIcons == {None, <<>>, S(":hammer:")}

ThreadIds == {S("1.5")}

Channels == {S("#x"), LoneSurrogate}

Queries == {S("a b"), S("q") \o LoneSurrogate}

OptSinces == {None, <<1999, 12, 5, 23, 59>>}

Limits == (-1..MaxLimit) \cup {DefaultLimit, HardCap + 1}

WriteBodies ==
    {[ok |-> TRUE, ts |-> S("1.6"), channel |-> S("C1")],
     [ok |-> TRUE],
     [ok |-> FALSE, error |-> S("invalid_auth")],
     [ok |-> FALSE],
     [error |-> S("invalid_auth")],
     <<>>}

WriteNets == TransportFailures \cup {NonObject} \cup {Body(j) : j \in WriteBodies}

Msgs ==
    {[user |-> S("U1"), text |-> S("one"), ts |-> S("1.7")],
     [username |-> S("bot")]}

\* the matches of a search response
MsgLists == UNION {[1..n -> Msgs] : n \in 0..MaxMatches}

\* a response that carries one match more than the hard cap
OverCapMatches == [i \in 1..(HardCap + 1) |-> [username |-> S("bot")]]

\* the messages of a thread, parent first
ThreadLists == UNION {[1..n -> Msgs] : n \in 0..MaxThread}

FailureBodies == {[ok |-> FALSE, error |-> S("not_found")], <<>>, [ok |-> TRUE]}

RepliesNets ==
    TransportFailures \cup {NonObject} \cup {Body(j) : j \in FailureBodies}
    \cup {Body([ok |-> TRUE, messages |-> ms]) : ms \in ThreadLists}

SearchNets ==
    TransportFailures \cup {NonObject} \cup {Body(j) : j \in FailureBodies}
    \cup {Body([ok |-> TRUE, messages |-> <<>>])}
    \cup {Body([ok |-> TRUE, messages |-> [matches |-> ms]]) :
             ms \in MsgLists \cup {OverCapMatches}}

-----------------------------------------------------------------------------
(* The adapter and its caller *)

Init ==
    /\ token \in Tokens
    /\ default_channel \in DefaultChannels
    /\ call = [op |-> "none"]
    /\ requests = <<>>
    /\ result = [kind |-> "none"]

\* one invocation by the caller: what was called, the requests it sent over
\* the network, and what it returned or raised
Invoke(c, outcome) ==
    /\ LET out == outcome
       IN  /\ call' = c
           /\ requests' = out.requests
           /\ result' = out.result
    /\ UNCHANGED <<token, default_channel>>

Post ==
    \E message \in Texts, channel \in OptChannels, username \in OptUsernames,
       icon \in OptIcons, net \in WriteNets :
        Invoke([op |-> "post", message |-> message, channel |-> channel,
                username |-> username, icon |-> icon, net |-> net],
               post(message, channel, username, icon, net))

PostThread ==
    \E thread_id \in ThreadIds, message \in Texts, channel \in OptChannels,
       net \in WriteNets :
        Invoke([op |-> "post_thread", thread_id |-> thread_id,
                message |-> message, channel |-> channel, net |-> net],
               post_thread(thread_id, message, channel, net))

GetThreadReplies ==
    \E channel \in Channels, thread_id \in ThreadIds, net \in RepliesNets :
        Invoke([op |-> "get_thread_replies", channel |-> channel,
                thread_id |-> thread_id, net |-> net],
               get_thread_replies(channel, thread_id, net))

Search ==
    \E query \in Queries, channel \in OptChannels, since \in OptSinces,
       limit \in Limits, net \in SearchNets :
        Invoke([op |-> "search", query |-> query, channel |-> channel,
                since |-> since, limit |-> limit, net |-> net],
               search(query, channel, since, limit, net))

Next == Post \/ PostThread \/ GetThreadReplies \/ Search

Spec == Init /\ [][Next]_vars

-----------------------------------------------------------------------------
(* Sanity of the string encoding *)

TypeOK ==
    /\ S("a#_~") = <<97, 35, 95, 126>>
    /\ QuotePlus(S("a b in:#x")) = S("a+b+in%3A%23x")
    /\ Strftime(<<2026, 2, 14, 9, 30>>) = S("2026-02-14")
    /\ Str(-1) = S("-1") /\ Str(101) = S("101") /\ Str(0) = S("0")
    /\ Len(requests) <= 1
    /\ result.kind \in {"none", "return", "raise"}

-----------------------------------------------------------------------------
(* Properties *)

IsWrite == call.op \in {"post", "post_thread"}

IsRead == call.op \in {"get_thread_replies", "search"}

\* the remote call completed and its body parsed to a JSON object
GotObject == call.net.t = "body"

FlagTrue == "ok" \in DOMAIN call.net.json /\ call.net.json["ok"]

\* C1: a post or post_thread whose response has a false or missing success
\* flag raises RuntimeError, returns no PostResult, and the message contains
\* the response's error field, or "unknown error" when there is none.
C1_ApiErrorOnFalseFlag ==
    (IsWrite /\ GotObject /\ ~FlagTrue) =>
        /\ result.kind = "raise"
        /\ result.type = "RuntimeError"
        /\ Contains(result.msg,
                    IF "error" \in DOMAIN call.net.json
                    THEN call.net.json["error"] ELSE S("unknown error"))

C1_Witness ==
    /\ call.op = "post_thread" /\ GotObject
    /\ DOMAIN call.net.json = {"ok"} /\ ~call.net.json["ok"]
    /\ result.kind = "raise"
    /\ result.msg = S("Slack API error: unknown error")

\* C2: get_thread_replies and search never raise; whatever the input and
\* whatever the remote call did, they return, and a failure returns <<>>.
C2_ReadsNeverRaise ==
    IsRead =>
        /\ result.kind = "return"
        /\ (~(GotObject /\ FlagTrue) => result.value = <<>>)

\* C3: a post or post_thread whose response has the success flag true (and
\* carries the ts and channel fields the claim speaks of) returns a PostResult
\* with message_id = timestamp = response ts and channel = response channel.
C3_PostResultFromResponse ==
    (IsWrite /\ GotObject /\ FlagTrue
        /\ {"ts", "channel"} \subseteq DOMAIN call.net.json) =>
        /\ result.kind = "return"
        /\ result.value.message_id = call.net.json["ts"]
        /\ result.value.timestamp = call.net.json["ts"]
        /\ result.value.channel = call.net.json["channel"]

C3_Witness ==
    /\ call.op = "post" /\ call.channel = S("#x")
    /\ result.kind = "return"
    /\ result.value.channel = S("C1")
    /\ result.value.message_id = S("1.6")

\* C4: the channel of the outbound payload of post and post_thread is the
\* caller's channel whenever one was supplied, whatever string it is, and
\* the default channel only when none was supplied.
C4_ExplicitChannelSent ==
    IsWrite =>
        requests[1].json["channel"] =
            IF call.channel # None THEN call.channel ELSE default_channel

\* C5: when the transport fails during post or post_thread, RuntimeError is
\* raised: for an HTTP error status the message contains the status code and
\* the reason phrase, otherwise it is the request-failed message.
C5_TransportFailureRaises ==
    (IsWrite /\ ~GotObject /\ call.net.t # "nonobject") =>
        /\ result.kind = "raise"
        /\ result.type = "RuntimeError"
        /\ IF call.net.t = "http"
           THEN /\ Contains(result.msg, Str(call.net.code))
                /\ Contains(result.msg, call.net.reason)
           ELSE StartsWith(result.msg, S("Request failed"))

C5_Witness ==
    /\ call.op = "post" /\ call.net.t = "http"
    /\ result.kind = "raise"
    /\ result.msg = S("HTTP error: 401 Unauthorized")

\* the messages a successful conversations.replies response carries
ThreadMessages == Get(call.net.json, "messages", <<>>)

\* C6: a successful get_thread_replies response with N messages yields the
\* N-1 messages after the first, one to one and in order (text verbatim or ""
\* when absent, author from user or "unknown" when absent); nothing for N <= 1.
C6_RepliesExcludeParent ==
    (call.op = "get_thread_replies" /\ requests # <<>> /\ GotObject /\ FlagTrue) =>
        /\ result.kind = "return"
        /\ Len(result.value) = Max(Len(ThreadMessages) - 1, 0)
        /\ \A i \in 1..Len(result.value) :
            LET msg == ThreadMessages[i + 1]
            IN  /\ result.value[i].text =
                     (IF "text" \in DOMAIN msg THEN msg["text"] ELSE <<>>)
                /\ result.value[i].author =
                     (IF "user" \in DOMAIN msg THEN msg["user"] ELSE S("unknown"))

C6_Witness ==
    /\ call.op = "get_thread_replies" /\ GotObject /\ FlagTrue
    /\ result.kind = "return"
    /\ Len(ThreadMessages) = 3
    /\ Len(result.value) = 2
    /\ result.value[1].author = S("U1")
    /\ result.value[2].author = S("unknown")

\* the matches a successful search.messages response carries
Matches == Get(Get(call.net.json, "messages", <<>>), "matches", <<>>)

SearchReturned ==
    call.op = "search" /\ requests # <<>> /\ GotObject /\ FlagTrue

\* the returned elements are the leading matches, in their original order
LeadingMatches ==
    /\ Len(result.value) <= Len(Matches)
    /\ \A i \in 1..Len(result.value) :
        LET msg == Matches[i]
        IN  /\ result.value[i].text =
                 (IF "text" \in DOMAIN msg THEN msg["text"] ELSE <<>>)
            /\ result.value[i].author =
                 (IF "user" \in DOMAIN msg THEN msg["user"]
                  ELSE IF "username" \in DOMAIN msg THEN msg["username"]
                  ELSE S("unknown"))

\* C7 as stated: for every integer limit, search returns at most limit
\* elements, and they are the leading matches of the response in order.
C7_AtMostLimitAnyInteger ==
    (call.op = "search" /\ result.kind = "return") =>
        /\ Len(result.value) <= call.limit
        /\ (SearchReturned => LeadingMatches)

\* C7 amended: for every limit >= 0, search returns at most limit elements;
\* for every limit the returned elements are the leading matches in order,
\* and for a limit < 0 all matches but the last -limit are returned.
C7_AtMostLimitNonNegative ==
    (call.op = "search" /\ result.kind = "return") =>
        /\ (call.limit >= 0 => Len(result.value) <= call.limit)
        /\ (SearchReturned =>
                /\ LeadingMatches
                /\ (call.limit >= 0 =>
                        Len(result.value) = Min(call.limit, Len(Matches)))
                /\ (call.limit < 0 =>
                        Len(result.value) = Max(Len(Matches) + call.limit, 0)))

C7_Witness ==
    /\ SearchReturned
    /\ call.limit = 1
    /\ Len(Matches) = 2
    /\ Len(result.value) = 1
    /\ result.value[1].author = S("bot")

\* C8: the payload post sends carries channel and text; username and
\* icon_emoji are present only when the caller supplied them, absent when
\* not supplied, and never sent empty or null.
C8_OptionalKeysOmitted ==
    call.op = "post" =>
        LET payload == requests[1].json
        IN  /\ {"channel", "text"} \subseteq DOMAIN payload
            /\ payload["text"] = call.message
            /\ DOMAIN payload \subseteq {"channel", "text", "username", "icon_emoji"}
            /\ ("username" \in DOMAIN payload =>
                    /\ call.username # None
                    /\ payload["username"] = call.username
                    /\ payload["username"] # <<>>)
            /\ ("icon_emoji" \in DOMAIN payload =>
                    /\ call.icon # None
                    /\ payload["icon_emoji"] = call.icon
                    /\ payload["icon_emoji"] # <<>>)
            /\ (call.username = None => "username" \notin DOMAIN payload)
            /\ (call.icon = None => "icon_emoji" \notin DOMAIN payload)

C8_Witness ==
    /\ call.op = "post"
    /\ call.username = S("bot") /\ call.icon = None
    /\ DOMAIN requests[1].json = {"channel", "text", "username"}
    /\ requests[1].json["username"] = S("bot")

\* the calendar date of the datetimes the caller passes
IsoDate(since) == IF since = <<1999, 12, 5, 23, 59>> THEN S("1999-12-05") ELSE <<>>

\* the query parameter of the request is exactly q
SendsQuery(q) ==
    StartsWith(requests[1].url,
               S("https://slack.com/api/search.messages?query=")
                   \o QuotePlus(q) \o S("&count="))

\* C9 as stated: the query sent is the caller's query, then in:<channel>
\* when a channel was supplied, then after:<YYYY-MM-DD> when since was.
C9_ClausesWhenSupplied ==
    (call.op = "search" /\ requests # <<>>) =>
        SendsQuery(call.query
                   \o (IF call.channel # None
                       THEN S(" in:") \o call.channel ELSE <<>>)
                   \o (IF call.since # None
                       THEN S(" after:") \o IsoDate(call.since) ELSE <<>>))

\* C9 amended: the query sent is the caller's query, then in:<channel> when
\* a non-empty channel was supplied (no clause for None or ""), then
\* after:<YYYY-MM-DD> when since was supplied.
C9_ClausesWhenNonEmpty ==
    (call.op = "search" /\ requests # <<>>) =>
        SendsQuery(call.query
                   \o (IF call.channel # None /\ call.channel # <<>>
                       THEN S(" in:") \o call.channel ELSE <<>>)
                   \o (IF call.since # None
                       THEN S(" after:") \o IsoDate(call.since) ELSE <<>>))

C9_Witness ==
    /\ call.op = "search" /\ requests # <<>>
    /\ call.channel = S("#x") /\ call.since = <<1999, 12, 5, 23, 59>>
    /\ SendsQuery(S("a b in:#x after:1999-12-05"))

\* C10: in any sequence of invocations, every invocation performs exactly one
\* outbound request, and the failure of that one request is the outcome of
\* the invocation: raised by a write, an empty result from a read.
C10_OneRequestPerCall ==
    /\ (call.op # "none" => Len(requests) = 1)
    /\ ((call.op # "none" /\ call.net.t \in {"http", "exc", "garbage"}) =>
            IF IsWrite THEN result.kind = "raise" ELSE result = Return(<<>>))

\* C11: the count parameter search sends is the lesser of the caller's limit
\* and the hard cap 100, and the client-side truncation is never to more than
\* that count: a search with limit >= 0 returns at most count elements.
C11_TruncationWithinCount ==
    (call.op = "search" /\ requests # <<>>) =>
        /\ EndsWith(requests[1].url,
                    S("&count=") \o Str(IF call.limit < 100 THEN call.limit ELSE 100))
        /\ ((result.kind = "return" /\ call.limit >= 0) =>
                Len(result.value) <= (IF call.limit < 100 THEN call.limit ELSE 100))

====
